---- MODULE Spec2Model ----
(***************************************************************************)
(* One run of btc_analysis.py: fetch_binance (5 mirrors x 3 attempts),     *)
(* fetch_coingecko_fallback, compute, and the record written to btc.json.  *)
(*                                                                         *)
(* Numbers.  Python floats are modelled as exact rationals <<n, d>> with   *)
(* d > 0 in lowest terms; the band values, which contain pstdev's square   *)
(* root, are modelled exactly as  a + b*sqrt(r)  with rational a, b, r.    *)
(* Floating-point rounding error is therefore not modelled, and neither is *)
(* the presentation rounding round(x, 2) of the returned dictionary: the   *)
(* record keeps the values compute() holds before rounding.                *)
(***************************************************************************)
EXTENDS Integers, Sequences, FiniteSets, TLC

VARIABLES pc, url, attempt, reqs, fails, delays, fbReqs, geckoReply, data, source,
          result, file, writes, exit,
          closes, vols, sma20, std20, upper, lower, safe_upper, safe_lower,
          ema12, ema26, trend, rvol, last, cross, freqU, freqL, prediction, emoji

(* The local variables of compute(). *)
locals == <<closes, vols, sma20, std20, upper, lower, safe_upper, safe_lower,
            ema12, ema26, trend, rvol, last, cross, freqU, freqL, prediction, emoji>>

vars == <<pc, url, attempt, reqs, fails, delays, fbReqs, geckoReply, data, source,
          result, file, writes, exit, locals>>

(* ------------------------------ CONFIG -------------------------------- *)
LIMIT == 120
RETRIES == 3
NumUrls == 5
BINANCE_URLS == 1..NumUrls
MinCandles == 20

(* Longest response body the environment sends. *)
MaxLen == 26

(* ------------------------- exact arithmetic --------------------------- *)
Abs(x) == IF x < 0 THEN -x ELSE x

Sgn(x) == IF x < 0 THEN -1 ELSE IF x = 0 THEN 0 ELSE 1

RECURSIVE GCD(_, _)
GCD(a, b) == IF b = 0 THEN a ELSE GCD(b, a % b)

(* The rational n/d in lowest terms with a positive denominator. *)
Rat(n, d) ==
    LET g == GCD(Abs(n), Abs(d))
        s == IF d < 0 THEN -1 ELSE 1
    IN  <<s * (n \div g), s * (d \div g)>>

RInt(n) == <<n, 1>>

RNeg(x) == <<-x[1], x[2]>>

RAdd(x, y) ==
    CASE x[2] > 0 /\ y[2] > 0 ->
        LET g == GCD(x[2], y[2])
            l == (x[2] \div g) * y[2]
        IN  Rat(x[1] * (l \div x[2]) + y[1] * (l \div y[2]), l)

RSub(x, y) == RAdd(x, RNeg(y))

RMul(x, y) ==
    CASE x[2] > 0 /\ y[2] > 0 ->
        LET g1 == GCD(Abs(x[1]), y[2])
            g2 == GCD(Abs(y[1]), x[2])
        IN  Rat((x[1] \div g1) * (y[1] \div g2), (x[2] \div g2) * (y[2] \div g1))

(* x / y for y # 0. *)
RDiv(x, y) ==
    CASE y[1] # 0 -> RMul(x, IF y[1] < 0 THEN <<-y[2], -y[1]>> ELSE <<y[2], y[1]>>)

RSquare(x) == <<x[1] * x[1], x[2] * x[2]>>

RSign(x) == Sgn(x[1])

(* Products of two naturals below 2^31 as five base-10^4 digits, most      *)
(* significant first, so that cross products can be compared exactly.      *)
Limbs(x) == <<x % 10000, (x \div 10000) % 10000, x \div 100000000>>

WideMul(x, y) ==
    LET a == Limbs(x)
        b == Limbs(y)
        c0 == a[1] * b[1]
        c1 == a[1] * b[2] + a[2] * b[1] + (c0 \div 10000)
        c2 == a[1] * b[3] + a[2] * b[2] + a[3] * b[1] + (c1 \div 10000)
        c3 == a[2] * b[3] + a[3] * b[2] + (c2 \div 10000)
        c4 == a[3] * b[3] + (c3 \div 10000)
    IN  <<c4, c3 % 10000, c2 % 10000, c1 % 10000, c0 % 10000>>

RECURSIVE LexCmp(_, _, _)
LexCmp(u, v, i) ==
    IF i > Len(u) THEN 0
    ELSE IF u[i] < v[i] THEN -1
    ELSE IF u[i] > v[i] THEN 1
    ELSE LexCmp(u, v, i + 1)

(* -1, 0 or 1 as x < y, x = y or x > y. *)
RCmp(x, y) ==
    IF RSign(x) # RSign(y) THEN Sgn(RSign(x) - RSign(y))
    ELSE RSign(x) * LexCmp(WideMul(Abs(x[1]), y[2]), WideMul(Abs(y[1]), x[2]), 1)

RLt(x, y) == RCmp(x, y) < 0

RGe(x, y) == RCmp(x, y) >= 0

RGt(x, y) == RCmp(x, y) > 0

(* a + b*sqrt(r), r >= 0. *)
Surd(a, b, r) == [a |-> a, b |-> b, r |-> r]

SFromRat(x) == Surd(x, RInt(0), RInt(0))

SAdd(x, y) == Surd(RAdd(x.a, y.a), RAdd(x.b, y.b), IF RSign(x.b) # 0 THEN x.r ELSE y.r)

SNeg(x) == Surd(RNeg(x.a), RNeg(x.b), x.r)

SSub(x, y) == SAdd(x, SNeg(y))

SScale(x, k) == Surd(RMul(x.a, k), RMul(x.b, k), x.r)

SSign(x) ==
    LET sa == RSign(x.a)
        sb == IF RSign(x.r) = 0 THEN 0 ELSE RSign(x.b)
    IN  IF sb = 0 THEN sa
        ELSE IF sa = 0 \/ sa = sb THEN sb
        ELSE LET c == RCmp(RMul(x.a, x.a), RMul(RMul(x.b, x.b), x.r))
             IN  IF c > 0 THEN sa ELSE IF c = 0 THEN 0 ELSE sb

SLt(x, y) == SSign(SSub(x, y)) < 0

SGt(x, y) == SSign(SSub(x, y)) > 0

SLe(x, y) == SSign(SSub(x, y)) <= 0

SAbs(x) == IF SSign(x) < 0 THEN SNeg(x) ELSE x

(* ---------------------------- JSON values ----------------------------- *)
(* A JSON scalar: a number, a string holding a decimal numeral, or null.   *)
Num(n) == [t |-> "num", n |-> n]

StrNum(n) == [t |-> "strnum", n |-> n]

StrText == [t |-> "strtext", n |-> 0]

Null == [t |-> "null", n |-> 0]

(* f"{v}": a number prints as its numeral, None prints as the text None.   *)
Format(v) ==
    IF v.t = "num" THEN StrNum(v.n)
    ELSE IF v.t = "null" THEN StrText
    ELSE v

(* float(v) succeeds on numbers and numerals; on None and other text it    *)
(* raises TypeError / ValueError.                                          *)
FloatOk(v) == v.t \in {"num", "strnum"}

Float(v) == RInt(v.n)

None == [some |-> FALSE]

Some(v) == [some |-> TRUE, v |-> v]

(* A kline row, of which only index 4 (close) and index 5 (volume) are read. *)
Kline(c, v) == [close |-> c, vol |-> v]

(* ------------------------ provider responses -------------------------- *)
CloseValues == {1, 5, 10}

VolValues == {0, 10, 40}

(* n rows: n - 1 rows (base, baseVol) followed by a last row (c, v). *)
Rows(n, base, baseVol, c, v) ==
    [i \in 1..n |-> IF i = n THEN Kline(c, v) ELSE Kline(StrNum(base), StrNum(baseVol))]

BinanceBodies ==
    { Rows(n, b, bv, c, v) :
        n \in 0..MaxLen, b \in {1, 5}, bv \in {0, 10},
        c \in {StrNum(x) : x \in CloseValues} \cup {Null},
        v \in {StrNum(x) : x \in VolValues} }

(* timeout: requests.get raises; http_error: raise_for_status raises;      *)
(* not_list: r.json() raises or yields an object; list: a JSON array.      *)
BinanceResponses ==
    { [kind |-> k, body |-> <<>>] : k \in {"timeout", "http_error", "not_list"} }
    \cup { [kind |-> "list", body |-> b] : b \in BinanceBodies }

(* An entry of "prices": a [timestamp, price] pair, or a scalar. *)
Point(p) == [pair |-> TRUE, price |-> p]

Scalar == [pair |-> FALSE, price |-> Null]

Prices(n, base, final) ==
    [i \in 1..n |-> IF i = n THEN final ELSE Point(Num(base))]

GeckoPrices ==
    { Prices(n, b, l) :
        n \in 0..MaxLen, b \in {1, 5},
        l \in {Point(Num(x)) : x \in CloseValues} \cup {Point(Null), Scalar} }

(* timeout: requests.get raises; not_json: .json() raises; not_dict: the   *)
(* body is a JSON array; dict: an object, with or without a "prices" key.  *)
GeckoResponses ==
    { [kind |-> k, hasPrices |-> FALSE, prices |-> <<>>] :
        k \in {"timeout", "not_json", "not_dict", "dict"} }
    \cup { [kind |-> "dict", hasPrices |-> TRUE, prices |-> p] : p \in GeckoPrices }

(* ------------------------------ helpers ------------------------------- *)
(* s[-k:] *)
LastN(s, k) == IF Len(s) <= k THEN s ELSE SubSeq(s, Len(s) - k + 1, Len(s))

(* s[:k] *)
FirstN(s, k) == IF Len(s) <= k THEN s ELSE SubSeq(s, 1, k)

(* sum(s[lo..hi]); exact addition is associative, so the halves are added  *)
(* separately to keep the evaluation shallow.                              *)
RECURSIVE SumRange(_, _, _)
SumRange(s, lo, hi) ==
    IF lo > hi THEN RInt(0)
    ELSE IF lo = hi THEN s[lo]
    ELSE LET left == SumRange(s, lo, (lo + hi) \div 2)
             right == SumRange(s, (lo + hi) \div 2 + 1, hi)
         IN  RAdd(left, right)

Sum(s) == SumRange(s, 1, Len(s))

(* fetch_binance's test of one response: the body when the attempt         *)
(* succeeds, None when any of the three failure kinds occurs.              *)
BinanceAttempt(r) ==
    IF r.kind = "list" /\ Len(r.body) >= MinCandles THEN Some(r.body) ELSE None

(* fetch_coingecko_fallback returning its klines without a tag. *)
fetch_coingecko_untagged(r) ==
    IF r.kind # "dict" THEN <<None, "None">>
    ELSE LET prices == LastN(IF r.hasPrices THEN r.prices ELSE <<>>, LIMIT)
         IN  IF prices = <<>> THEN <<None, "None">>
             ELSE IF \E i \in 1..Len(prices) : ~prices[i].pair THEN <<None, "None">>
             ELSE <<Some([i \in 1..Len(prices) |->
                            Kline(Format(prices[i].price), StrNum(0))]),
                    "None">>

(* fetch_coingecko_fallback's result <<data, source>> for one response. *)
fetch_coingecko_fallback(r) ==
    IF r.kind # "dict" THEN <<None, "None">>
    ELSE LET prices == LastN(IF r.hasPrices THEN r.prices ELSE <<>>, LIMIT)
         IN  IF prices = <<>> THEN <<None, "None">>
             ELSE IF \E i \in 1..Len(prices) : ~prices[i].pair THEN <<None, "None">>
             ELSE <<Some([i \in 1..Len(prices) |->
                            Kline(Format(prices[i].price), StrNum(0))]),
                    "CoinGecko">>

(* ------------------------------ compute ------------------------------- *)
(* closes = [float(c[4]) ...]; vols = [float(c[5]) ...] raise when a field *)
(* is not convertible.                                                     *)
ComputeRaises(d) ==
    \E i \in 1..Len(d) : ~FloatOk(d[i].close) \/ ~FloatOk(d[i].vol)

Closes(d) == [i \in 1..Len(d) |-> Float(d[i].close)]

Vols(d) == [i \in 1..Len(d) |-> Float(d[i].vol)]

Sma20(cs) == RDiv(Sum(LastN(cs, 20)), RInt(20))

(* statistics.pstdev: the root of the mean squared deviation from the mean *)
(* of the values passed (their own count, not 20).                         *)
Pvariance(xs) ==
    LET n == RInt(Len(xs))
        mu == RDiv(Sum(xs), n)
    IN  CASE mu[2] > 0 ->
            RDiv(Sum([i \in 1..Len(xs) |-> RSquare(RSub(xs[i], mu))]), n)

Std20(cs) == Surd(RInt(0), RInt(1), Pvariance(LastN(cs, 20)))

Upper(mean, dev) == SAdd(SFromRat(mean), SScale(dev, RInt(2)))

Lower(mean, dev) == SSub(SFromRat(mean), SScale(dev, RInt(2)))

SafeUpper(band) == SScale(band, Rat(1005, 1000))

SafeLower(band) == SScale(band, Rat(995, 1000))

(* The value of e after the loop has consumed series[i]; for i <= period   *)
(* it is the seed sum(series[:period]) / period.                           *)
RECURSIVE EmaAt(_, _, _)
EmaAt(series, period, i) ==
    IF i <= period THEN RDiv(Sum(FirstN(series, period)), RInt(period))
    ELSE LET k == Rat(2, period + 1)
             e == EmaAt(series, period, i - 1)
         IN  CASE e[2] > 0 -> RAdd(RMul(series[i], k), RMul(e, RSub(RInt(1), k)))

ema(series, period) == EmaAt(series, period, Len(series))

Trend(fast, slow) == IF RGt(fast, slow) THEN "UP" ELSE "DOWN"

(* Rvol taking the ratio to be 1 when the average volume is zero. *)
RvolDefaultsToOne(vs) ==
    LET s == Sum(LastN(vs, 20))
        avg_vol20 == IF s # RInt(0) THEN RDiv(s, RInt(20)) ELSE RInt(0)
    IN  IF avg_vol20 # RInt(0) THEN RDiv(vs[Len(vs)], avg_vol20) ELSE RInt(1)

Rvol(vs) ==
    LET s == Sum(LastN(vs, 20))
        avg_vol20 == IF s # RInt(0) THEN RDiv(s, RInt(20)) ELSE RInt(0)
    IN  IF avg_vol20 # RInt(0) THEN RDiv(vs[Len(vs)], avg_vol20) ELSE RInt(0)

Cross(price, hi, lo) ==
    IF SGt(SFromRat(price), hi) THEN "ABOVE"
    ELSE IF SLt(SFromRat(price), lo) THEN "BELOW"
    ELSE "no cross"

(* Number of the last 12 closes c with abs(band - c) <= tol; the test is   *)
(* decided once for each distinct close.                                   *)
NearCount(cs, band, within) ==
    LET recent == LastN(cs, 12)
        near == { c \in { recent[i] : i \in 1..Len(recent) } :
                    SLe(SAbs(SSub(band, SFromRat(c))), within) }
    IN  Cardinality({ i \in 1..Len(recent) : recent[i] \in near })

(* tol = width * 0.15, width = upper - lower. *)
Tol(hi, lo) == SScale(SSub(hi, lo), Rat(15, 100))

(* round(count / 12 * 100, 1), in tenths of a percent. *)
Freq(count) == (count * 10000 + 60) \div 120

WeakPrediction(dir) ==
    IF dir = "UP" THEN "Weak UP - Low Volume" ELSE "Weak DOWN - Low Volume"

(* Prediction with the trend test missing from the strong-bearish row. *)
PredictionIgnoresTrend(crossing, dir, ratio) ==
    IF crossing = "ABOVE" /\ dir = "UP" /\ RGe(ratio, Rat(15, 10))
        THEN <<"UP (strong)", "green">>
    ELSE IF crossing = "BELOW" /\ RGe(ratio, Rat(15, 10))
        THEN <<"DOWN (strong)", "red">>
    ELSE IF RLt(ratio, Rat(8, 10))
        THEN <<WeakPrediction(dir), "white">>
    ELSE <<dir, "white">>

Prediction(crossing, dir, ratio) ==
    IF crossing = "ABOVE" /\ dir = "UP" /\ RGe(ratio, Rat(15, 10))
        THEN <<"UP (strong)", "green">>
    ELSE IF crossing = "BELOW" /\ dir = "DOWN" /\ RGe(ratio, Rat(15, 10))
        THEN <<"DOWN (strong)", "red">>
    ELSE IF RLt(ratio, Rat(8, 10))
        THEN <<WeakPrediction(dir), "white">>
    ELSE <<dir, "white">>

(* --------------------------- the main script -------------------------- *)
(* Before the fallback provider has answered. *)
NoReply == [kind |-> "none", hasPrices |-> FALSE, prices |-> <<>>]

Init ==
    /\ pc = "fetch_binance"
    /\ url = 1
    /\ attempt = 1
    /\ reqs = [u \in BINANCE_URLS |-> 0]
    /\ fails = [u \in BINANCE_URLS |-> 0]
    /\ delays = 0
    /\ fbReqs = 0
    /\ geckoReply = NoReply
    /\ data = None
    /\ source = "None"
    /\ result = None
    /\ file = None
    /\ writes = 0
    /\ exit = "running"
    /\ closes = "unset"
    /\ vols = "unset"
    /\ sma20 = "unset"
    /\ std20 = "unset"
    /\ upper = "unset"
    /\ lower = "unset"
    /\ safe_upper = "unset"
    /\ safe_lower = "unset"
    /\ ema12 = "unset"
    /\ ema26 = "unset"
    /\ trend = "unset"
    /\ rvol = "unset"
    /\ last = "unset"
    /\ cross = "unset"
    /\ freqU = "unset"
    /\ freqL = "unset"
    /\ prediction = "unset"
    /\ emoji = "unset"

(* One pass of the inner loop whose response passes the shape test. *)
AttemptSucceeds ==
    /\ pc = "fetch_binance"
    /\ \E r \in BinanceResponses :
        /\ BinanceAttempt(r).some
        /\ data' = BinanceAttempt(r)
    /\ reqs' = [reqs EXCEPT ![url] = @ + 1]
    /\ source' = "Binance"
    /\ pc' = "main_145"
    /\ UNCHANGED <<geckoReply, url, attempt, fails, delays, fbReqs, result, file, writes, exit, locals>>

(* AttemptFails with the retry loop left after the first failure. *)
AttemptFailsSkipsEndpoint ==
    /\ pc = "fetch_binance"
    /\ \E r \in BinanceResponses : ~BinanceAttempt(r).some
    /\ reqs' = [reqs EXCEPT ![url] = @ + 1]
    /\ fails' = [fails EXCEPT ![url] = @ + 1]
    /\ IF url < NumUrls
         THEN pc' = "fetch_binance" /\ url' = url + 1 /\ attempt' = 1
         ELSE pc' = "main_145" /\ UNCHANGED <<url, attempt>>
    /\ UNCHANGED <<delays, fbReqs, geckoReply, data, source, result, file, writes, exit,
                   locals>>

(* AttemptFails sleeping after every failure, the third included. *)
AttemptFailsAlwaysSleeps ==
    /\ pc = "fetch_binance"
    /\ \E r \in BinanceResponses : ~BinanceAttempt(r).some
    /\ reqs' = [reqs EXCEPT ![url] = @ + 1]
    /\ fails' = [fails EXCEPT ![url] = @ + 1]
    /\ IF attempt < RETRIES
         THEN pc' = "sleep" /\ UNCHANGED <<url, attempt, delays>>
         ELSE /\ delays' = delays + 1
              /\ IF url < NumUrls
                   THEN pc' = "fetch_binance" /\ url' = url + 1 /\ attempt' = 1
                   ELSE pc' = "main_145" /\ UNCHANGED <<url, attempt>>
    /\ UNCHANGED <<fbReqs, geckoReply, data, source, result, file, writes, exit, locals>>

(* AttemptFails returning None, None once the first endpoint is exhausted. *)
AttemptFailsGivesUp ==
    /\ pc = "fetch_binance"
    /\ \E r \in BinanceResponses : ~BinanceAttempt(r).some
    /\ reqs' = [reqs EXCEPT ![url] = @ + 1]
    /\ fails' = [fails EXCEPT ![url] = @ + 1]
    /\ IF attempt < RETRIES THEN pc' = "sleep" ELSE pc' = "main_145"
    /\ UNCHANGED <<url, attempt, delays, fbReqs, geckoReply, data, source, result, file,
                   writes, exit, locals>>

(* One pass of the inner loop that ends in the except clause. *)
AttemptFails ==
    /\ pc = "fetch_binance"
    /\ \E r \in BinanceResponses : ~BinanceAttempt(r).some
    /\ reqs' = [reqs EXCEPT ![url] = @ + 1]
    /\ fails' = [fails EXCEPT ![url] = @ + 1]
    /\ IF attempt < RETRIES
         THEN pc' = "sleep" /\ UNCHANGED <<url, attempt>>
         ELSE IF url < NumUrls
                THEN pc' = "fetch_binance" /\ url' = url + 1 /\ attempt' = 1
                ELSE pc' = "main_145" /\ UNCHANGED <<url, attempt>>
    /\ UNCHANGED <<delays, fbReqs, geckoReply, data, source, result, file, writes, exit,
                   locals>>

(* time.sleep(RETRY_DELAY), then the next attempt on the same endpoint. *)
Sleep ==
    /\ pc = "sleep"
    /\ delays' = delays + 1
    /\ attempt' = attempt + 1
    /\ pc' = "fetch_binance"
    /\ UNCHANGED <<geckoReply, url, reqs, fails, fbReqs, data, source, result, file, writes, exit, locals>>

(* Fallback called whether or not the primary path returned data. *)
FallbackUnconditional ==
    /\ pc = "main_145"
    /\ \E r \in GeckoResponses :
        /\ data' = fetch_coingecko_fallback(r)[1]
        /\ source' = fetch_coingecko_fallback(r)[2]
        /\ geckoReply' = r
    /\ fbReqs' = fbReqs + 1
    /\ pc' = "main_148"
    /\ UNCHANGED <<url, attempt, reqs, fails, delays, result, file, writes, exit, locals>>

(* if data is None: data, source = fetch_coingecko_fallback() *)
Fallback ==
    /\ pc = "main_145"
    /\ data = None
    /\ \E r \in GeckoResponses :
        /\ data' = fetch_coingecko_fallback(r)[1]
        /\ source' = fetch_coingecko_fallback(r)[2]
        /\ geckoReply' = r
    /\ fbReqs' = fbReqs + 1
    /\ pc' = "main_148"
    /\ UNCHANGED <<url, attempt, reqs, fails, delays, result, file, writes, exit, locals>>

SkipFallback ==
    /\ pc = "main_145"
    /\ data # None
    /\ pc' = "main_148"
    /\ UNCHANGED <<geckoReply, url, attempt, reqs, fails, delays, fbReqs, data, source,
                   result, file, writes, exit, locals>>

ErrorPayload(src) ==
    [ error |-> "Failed to fetch market data.", prediction |-> "no data",
      emoji |-> "white", source |-> IF src = "None" THEN "none" ELSE src ]

(* if not data: write the error record and raise SystemExit(0). *)
WriteError ==
    /\ pc = "main_148"
    /\ ~data.some
    /\ file' = Some(ErrorPayload(source))
    /\ writes' = writes + 1
    /\ exit' = "0"
    /\ pc' = "done"
    /\ UNCHANGED <<geckoReply, url, attempt, reqs, fails, delays, fbReqs, data, source, result, locals>>

(* result = compute(data), for data on which compute returns: the body of *)
(* compute, statement by statement, and the dictionary it returns.         *)
Compute ==
    /\ pc = "main_148"
    /\ data.some
    /\ ~ComputeRaises(data.v)
    /\ closes' = Closes(data.v)
    /\ vols' = Vols(data.v)
    /\ sma20' = Sma20(closes')
    /\ std20' = Std20(closes')
    /\ upper' = Upper(sma20', std20')
    /\ lower' = Lower(sma20', std20')
    /\ safe_upper' = SafeUpper(upper')
    /\ safe_lower' = SafeLower(lower')
    /\ ema12' = ema(closes', 12)
    /\ ema26' = ema(closes', 26)
    /\ trend' = Trend(ema12', ema26')
    /\ rvol' = Rvol(vols')
    /\ last' = closes'[Len(closes')]
    /\ cross' = Cross(last', safe_upper', safe_lower')
    /\ freqU' = Freq(NearCount(closes', upper', Tol(upper', lower')))
    /\ freqL' = Freq(NearCount(closes', lower', Tol(upper', lower')))
    /\ prediction' = Prediction(cross', trend', rvol')[1]
    /\ emoji' = Prediction(cross', trend', rvol')[2]
    /\ result' = Some([ last |-> last', volume |-> vols'[Len(vols')], rvol |-> rvol',
                        sma20 |-> sma20', upper |-> upper', lower |-> lower',
                        safe_upper |-> safe_upper', safe_lower |-> safe_lower',
                        ema12 |-> ema12', ema26 |-> ema26', trend |-> trend',
                        freq_upper |-> freqU', freq_lower |-> freqL',
                        cross |-> cross', prediction |-> prediction',
                        emoji |-> emoji' ])
    /\ pc' = "main_161"
    /\ UNCHANGED <<geckoReply, url, attempt, reqs, fails, delays, fbReqs, data, source,
                   file, writes, exit>>

(* result = compute(data), for data on which float() raises: the exception *)
(* is caught nowhere and the interpreter exits with a traceback.           *)
ComputeCrashes ==
    /\ pc = "main_148"
    /\ data.some
    /\ ComputeRaises(data.v)
    /\ exit' = "uncaught"
    /\ pc' = "done"
    /\ UNCHANGED <<geckoReply, url, attempt, reqs, fails, delays, fbReqs, data, source,
                   result, file, writes, locals>>

(* result["source"] = source; result["closes"] = the last 20 closes;       *)
(* write_json(result); the script prints its summary and ends.             *)
WriteResult ==
    /\ pc = "main_161"
    /\ file' = Some(result.v @@ [source |-> source, closes |-> LastN(Closes(data.v), 20)])
    /\ writes' = writes + 1
    /\ exit' = "0"
    /\ pc' = "done"
    /\ UNCHANGED <<geckoReply, url, attempt, reqs, fails, delays, fbReqs, data, source, result, locals>>

Next ==
    \/ AttemptSucceeds
    \/ AttemptFails
    \/ Sleep
    \/ Fallback
    \/ SkipFallback
    \/ WriteError
    \/ Compute
    \/ ComputeCrashes
    \/ WriteResult

Spec == Init /\ [][Next]_vars

(* ------------------------------ properties ---------------------------- *)
RECURSIVE Total(_, _)
Total(f, n) == IF n = 0 THEN 0 ELSE f[n] + Total(f, n - 1)

Min(a, b) == IF a < b THEN a ELSE b

(* fetch_binance has returned. *)
PrimaryDone == pc \notin {"fetch_binance", "sleep"}

(* Every attempt on every endpoint has failed. *)
PrimaryAllFailed == \A u \in BINANCE_URLS : fails[u] = RETRIES

(* Some attempt passed the shape test. *)
PrimarySucceeded == Total(reqs, NumUrls) > Total(fails, NumUrls)

(* The run has passed the fallback decision of line 145. *)
AcquisitionDone == pc \in {"main_148", "main_161", "done"}

(* C1: the acquisition step ends with at least 20 candles and a tag, or    *)
(* with no data, so compute() is never called on fewer than 20 candles.    *)
C1_ComputeGetsMinCandles ==
    (AcquisitionDone /\ data.some) =>
        (Len(data.v) >= MinCandles /\ source \in {"Binance", "CoinGecko"})

(* C2: endpoints are tried in list order, each at most 3 times; endpoint   *)
(* i+1 is requested only after exactly 3 failed attempts on endpoint i;    *)
(* when all fail, fetch_binance returns no data after exactly 15 requests  *)
(* and without an exception.                                               *)
C2_OrderedBoundedAttempts ==
    /\ \A u \in BINANCE_URLS : fails[u] <= reqs[u] /\ reqs[u] <= 3
    /\ \A u \in 1..(NumUrls - 1) : reqs[u + 1] > 0 => (reqs[u] = 3 /\ fails[u] = 3)
    /\ (~PrimaryDone) => (reqs[url] = attempt - (IF pc = "sleep" THEN 0 ELSE 1))
    /\ (PrimaryDone /\ ~PrimarySucceeded) =>
          /\ Total(reqs, NumUrls) = 15
          /\ Total(fails, NumUrls) = 15
          /\ (pc = "main_145" => (data = None /\ source = "None" /\ exit = "running"))

C2_Witness ==
    pc = "main_145" /\ data = None /\ Total(reqs, NumUrls) = 15

(* C3: once a primary attempt has succeeded no further request is issued,  *)
(* no delay is waited and the fallback provider is not contacted; the      *)
(* successful attempt itself returns straight to the caller.               *)
C3_SuccessReturnsImmediately ==
    [][ /\ PrimarySucceeded =>
              (reqs' = reqs /\ delays' = delays /\ fbReqs' = fbReqs /\ fbReqs = 0)
        /\ (~PrimarySucceeded /\ PrimarySucceeded') =>
              (delays' = delays /\ pc' = "main_145" /\ source' = "Binance" /\ data'.some)
      ]_vars

C3_Witness ==
    pc = "done" /\ PrimarySucceeded /\ fbReqs = 0 /\ Total(fails, NumUrls) > 0

(* C4: a failed attempt is followed by exactly one delay iff attempts      *)
(* remain on the same endpoint; none follows the third failure or a        *)
(* success; a run whose primary attempts all fail waits exactly 10 delays. *)
C4_DelaysMatchRetries ==
    /\ delays + (IF pc = "sleep" THEN 1 ELSE 0)
          = Total([u \in BINANCE_URLS |-> Min(fails[u], 2)], NumUrls)
    /\ pc = "sleep" => (attempt < 3 /\ fails[url] = attempt)
    /\ (PrimaryDone /\ ~PrimarySucceeded) => delays = 10

C4_Witness ==
    pc = "main_145" /\ ~PrimarySucceeded /\ delays = 10

(* C5: the fallback provider is contacted only when every primary attempt  *)
(* has failed, then exactly once, never more than once in any run, and     *)
(* only after the last primary request.                                    *)
C5_FallbackOnceAfterTotalFailure ==
    /\ [](/\ fbReqs <= 1
          /\ fbReqs = 1 => (PrimaryAllFailed /\ PrimaryDone)
          /\ (AcquisitionDone /\ PrimaryAllFailed) => fbReqs = 1)
    /\ [][fbReqs >= 1 => reqs' = reqs]_vars

C5_Witness ==
    pc = "done" /\ fbReqs = 1 /\ PrimaryAllFailed

(* C6: whatever the providers answer, the run ends normally having written *)
(* exactly one record: the indicator record with its source when data was  *)
(* obtained, the minimal error record otherwise; exit status 0.            *)
C6_RunEndsWithOneRecord ==
    pc = "done" =>
        /\ exit = "0"
        /\ writes = 1
        /\ file.some
        /\ data.some => (result.some /\ file.v.source = source
                          /\ file.v.prediction = result.v.prediction)
        /\ ~data.some => file.v = ErrorPayload(source)

(* A fallback reply that carries a price series: a non-empty list of       *)
(* [timestamp, price] pairs.                                               *)
GaveSeries(r) ==
    /\ r.kind = "dict"
    /\ r.hasPrices
    /\ Len(r.prices) > 0
    /\ \A i \in 1..Len(r.prices) : r.prices[i].pair

(* C7: the source tag names the path that produced the candles: Binance    *)
(* iff a primary attempt succeeded, CoinGecko iff all primary attempts     *)
(* failed and the fallback returned a non-empty price series; data is      *)
(* absent iff the tag is absent, which the error record reports as none.   *)
C7_SourceNamesPath ==
    /\ source = "Binance" <=> PrimarySucceeded
    /\ source = "CoinGecko" <=> (PrimaryAllFailed /\ fbReqs = 1 /\ GaveSeries(geckoReply))
    /\ data.some <=> source # "None"
    /\ (pc = "done" /\ ~data.some) => file.v.source = "none"
    /\ (pc = "done" /\ exit = "0" /\ data.some) => file.v.source = source

C7_Witness ==
    pc = "done" /\ source = "CoinGecko" /\ file.some /\ file.v.source = "CoinGecko"

StrongUp(r) == r.cross = "ABOVE" /\ r.trend = "UP" /\ RGe(r.rvol, Rat(3, 2))

StrongDown(r) == r.cross = "BELOW" /\ r.trend = "DOWN" /\ RGe(r.rvol, Rat(3, 2))

LowVolume(r) == RLt(r.rvol, Rat(4, 5))

(* Relative volumes on both sides of, and on, the two thresholds. *)
RvolSamples == {Rat(0, 1), Rat(79, 100), Rat(4, 5), Rat(1, 1), Rat(149, 100), Rat(3, 2),
                Rat(4, 1)}

(* The decision table of the specification, first match wins. *)
TableEntry(crossing, dir, ratio) ==
    IF crossing = "ABOVE" /\ dir = "UP" /\ ~RLt(ratio, Rat(3, 2)) THEN "UP (strong)"
    ELSE IF crossing = "BELOW" /\ dir = "DOWN" /\ ~RLt(ratio, Rat(3, 2)) THEN "DOWN (strong)"
    ELSE IF RLt(ratio, Rat(4, 5)) THEN WeakPrediction(dir)
    ELSE dir

(* C8: the prediction follows the decision table: UP (strong) exactly on   *)
(* ABOVE/UP/rvol >= 1.5, DOWN (strong) exactly on BELOW/DOWN/rvol >= 1.5,  *)
(* otherwise the weak form exactly when rvol < 0.8, otherwise the bare     *)
(* trend; no input meets a strong and the low-volume condition together.   *)
(* Checked on every record compute() returns and, when compute() has just  *)
(* returned, on every combination of cross, trend and sampled rvol.        *)
C8_DecisionTable ==
    /\ pc = "main_161" =>
          \A crossing \in {"ABOVE", "BELOW", "no cross"}, dir \in {"UP", "DOWN"},
             ratio \in RvolSamples :
              /\ Prediction(crossing, dir, ratio)[1] = TableEntry(crossing, dir, ratio)
              /\ ~(RGe(ratio, Rat(3, 2)) /\ RLt(ratio, Rat(4, 5)))
    /\ result.some =>
        LET r == result.v IN
        /\ r.prediction = "UP (strong)" <=> StrongUp(r)
        /\ r.prediction = "DOWN (strong)" <=> StrongDown(r)
        /\ r.prediction = WeakPrediction(r.trend)
              <=> (~StrongUp(r) /\ ~StrongDown(r) /\ LowVolume(r))
        /\ r.prediction = r.trend
              <=> (~StrongUp(r) /\ ~StrongDown(r) /\ ~LowVolume(r))
        /\ ~((StrongUp(r) \/ StrongDown(r)) /\ LowVolume(r))
        /\ r.emoji = (IF StrongUp(r) THEN "green" ELSE IF StrongDown(r) THEN "red"
                      ELSE "white")

C8_Witness ==
    result.some /\ result.v.prediction = "UP (strong)" /\ result.v.cross = "ABOVE"

(* C9: on fallback candles (all volumes zero) compute() yields rvol = 0    *)
(* and the prediction is always the weak form, whatever the closes are.    *)
C9_FallbackIsLowVolume ==
    (result.some /\ source = "CoinGecko") =>
        /\ result.v.rvol = RInt(0)
        /\ result.v.volume = RInt(0)
        /\ result.v.prediction = WeakPrediction(result.v.trend)

C9_Witness ==
    result.some /\ source = "CoinGecko" /\ result.v.cross = "ABOVE"

(* C10: for every sequence of at least 20 candles the safe band contains   *)
(* the statistical band, safe_lower <= lower <= upper <= safe_upper, so a  *)
(* cross implies that the close is outside the raw band as well.           *)
C10_SafeBandWidens ==
    (result.some /\ Len(data.v) >= MinCandles) =>
        LET r == result.v IN
        /\ SLe(r.safe_lower, r.lower)
        /\ SLe(r.lower, r.upper)
        /\ SLe(r.upper, r.safe_upper)
        /\ r.cross = "ABOVE" => SGt(SFromRat(r.last), r.upper)
        /\ r.cross = "BELOW" => SLt(SFromRat(r.last), r.lower)

====
